---- MODULE Spec2Model ----
(***************************************************************************)
(* Country Statistics Explorer (src/country_information.py).               *)
(*                                                                         *)
(* The module models the five cached functions of the script, the          *)
(* st.cache_data memoisation in front of them, and the top-level script    *)
(* that Streamlit re-runs on every user interaction.                       *)
(*                                                                         *)
(* Encoding of Python values                                               *)
(*   None            the empty tuple <<>>                                  *)
(*   a value v that may also be None / absent      <<v>>                   *)
(*   a JSON object   a record whose fields are all optional in this sense  *)
(*   a dict          a sequence of <<key, value>> pairs (insertion order)  *)
(*   int vs. str in the same slot    <<"int", n>> and <<"str", s>>         *)
(***************************************************************************)
EXTENDS Integers, Sequences, FiniteSets, TLC

VARIABLES
    selected,      \* st.multiselect value of the current script run
    idx,           \* loop variable i of the render loop (1-based)
    pc,            \* position of the script run
    uncaught,      \* the exception that ended the script run, or ""
    country_data,  \* the variable country_data of the render loop
    cache,         \* st.cache_data: (function, arguments) -> cached outcome
    completed,     \* per function: the arguments it has returned normally for
    urls,          \* every URL requested so far
    earlier,       \* the URLs requested in earlier script runs
    reissued,      \* a function requested the network for arguments already completed
    urlAgain,      \* a run requested a URL that an earlier run had requested
    hit,           \* the last step was answered by the cache
    screen,        \* per column: the elements written to the page
    file,          \* contents of data/fun_facts.json
    runs,          \* number of script runs started
    call,          \* the function call under examination (unit specification)
    result         \* outcome of that call

vars == <<selected, idx, pc, uncaught, country_data, cache, completed, urls, earlier,
          reissued, urlAgain, hit, screen, file, runs, call, result>>

----------------------------------------------------------------------------
(* Bounds of the model *)

MaxBorders == 2

MaxSeries == 6

MaxNeighbors == 2

MaxRuns == 3

----------------------------------------------------------------------------
(* Python values *)

None == <<>>

Some(v) == <<v>>

PyInt(n) == <<"int", n>>

PyStr(s) == <<"str", s>>

IsInt(v) == v[1] = "int"

\* dict.get(key, default) on an object whose field is optional
Get(field, default) == IF field = None THEN default ELSE field[1]

RECURSIVE Join(_, _)
\* sep.join(strs)
Join(strs, sep) ==
    IF Len(strs) = 0 THEN ""
    ELSE IF Len(strs) = 1 THEN strs[1]
    ELSE strs[1] \o sep \o Join(Tail(strs), sep)

\* dict.keys() / dict.values() of a dict given as a sequence of pairs
Keys(d) == [k \in 1..Len(d) |-> d[k][1]]

Values(d) == [k \in 1..Len(d) |-> d[k][2]]

RECURSIVE SeqsUpTo(_, _)
\* all sequences over S of length at most n
SeqsUpTo(S, n) ==
    IF n = 0 THEN {<<>>}
    ELSE LET shorter == SeqsUpTo(S, n - 1)
         IN  shorter \cup {Append(s, x) : s \in {t \in shorter : Len(t) = n - 1}, x \in S}

----------------------------------------------------------------------------
(* pycountry: the lookup table the script consumes *)

\* A value of a JSON list that is not a string (pycountry raises LookupError
\* for it instead of returning None).
NonStr == "#0"

pycountry_countries ==
    { [name |-> "France",  alpha_3 |-> "FRA"],
      [name |-> "Germany", alpha_3 |-> "DEU"] }

\* pycountry.countries.get(name=...): the country, None, or "raise"
countries_get_by_name(country_name) ==
    IF country_name = NonStr THEN [raised |-> TRUE, ret |-> None]
    ELSE IF \E c \in pycountry_countries : c.name = country_name
         THEN [raised |-> FALSE,
               ret |-> Some(CHOOSE c \in pycountry_countries : c.name = country_name)]
         ELSE [raised |-> FALSE, ret |-> None]

\* pycountry.countries.get(alpha_3=...)
countries_get_by_alpha_3(code) ==
    IF code = NonStr THEN [raised |-> TRUE, ret |-> None]
    ELSE IF \E c \in pycountry_countries : c.alpha_3 = code
         THEN [raised |-> FALSE,
               ret |-> Some(CHOOSE c \in pycountry_countries : c.alpha_3 = code)]
         ELSE [raised |-> FALSE, ret |-> None]

country_list == {c.name : c \in pycountry_countries}

----------------------------------------------------------------------------
(* fetch_country_data *)

\* the request goes to the name endpoint instead of the code endpoint
FactsUrlByName(country_code) == "https://restcountries.com/v3.1/name/" \o country_code

FactsUrl(country_code) == "https://restcountries.com/v3.1/alpha/" \o country_code

RECURSIVE ResolveBordersKeepsUnresolved(_)
\* ResolveBorders without the test of line 37: an unresolved code leaves "".
ResolveBordersKeepsUnresolved(borders) ==
    IF Len(borders) = 0 THEN <<>>
    ELSE LET neighbor == countries_get_by_alpha_3(borders[1])
         IN  IF ~neighbor.raised /\ neighbor.ret # None
             THEN <<neighbor.ret[1].name>> \o ResolveBordersKeepsUnresolved(Tail(borders))
             ELSE <<"">> \o ResolveBordersKeepsUnresolved(Tail(borders))

RECURSIVE ResolveBorders(_)
\* The loop over borders, lines 33-40.
ResolveBorders(borders) ==
    IF Len(borders) = 0 THEN <<>>
    ELSE LET neighbor == countries_get_by_alpha_3(borders[1])
         IN  IF ~neighbor.raised /\ neighbor.ret # None
             THEN <<neighbor.ret[1].name>> \o ResolveBorders(Tail(borders))
             ELSE ResolveBorders(Tail(borders))

\* Lines 19-53: the record built from response.json(); "raise" when an index
\* or key is missing.
BuildCountryData(json) ==
    IF Len(json) = 0 THEN [raised |-> TRUE, ret |-> None]
    ELSE
    LET data       == json[1]
        capitals   == Get(data.capital, <<"N/A">>)
        population == Get(data.population, PyStr("N/A"))
        area       == Get(data.area, PyStr("N/A"))
        currencies == Get(data.currencies, <<>>)
        currency   == IF Len(currencies) > 0 THEN Join(Keys(currencies), ", ") ELSE "N/A"
        languages  == Get(data.languages, <<>>)
        language   == IF Len(languages) > 0 THEN Join(Values(languages), ", ") ELSE "N/A"
        timezones  == Join(Get(data.timezones, <<"N/A">>), ", ")
        borders    == Get(data.borders, <<>>)
        flag_url   == Get(Get(data.flags, [png |-> None]).png, "")
    IN  IF Len(capitals) = 0 \/ data.latlng = None \/ Len(Get(data.latlng, <<>>)) < 2
        THEN [raised |-> TRUE, ret |-> None]
        ELSE [raised |-> FALSE,
              ret |-> Some(
                 [Capital    |-> capitals[1],
                  Population |-> population,
                  Area       |-> area,
                  Currency   |-> currency,
                  Languages  |-> language,
                  TimeZones  |-> timezones,
                  Neighbors  |-> ResolveBorders(borders),
                  Flag       |-> flag_url,
                  Latitude   |-> data.latlng[1][1],
                  Longitude  |-> data.latlng[1][2]])]

\* env is what the network does with the request, if one is made:
\* [ok |-> FALSE] for a RequestException, else [ok |-> TRUE, json |-> ...].
fetch_country_data(country_name, env) ==
    LET country == countries_get_by_name(country_name) IN
    IF country.raised
    THEN [ret |-> None, raised |-> FALSE, reqs |-> <<>>,
          shown |-> <<"An unexpected error occurred">>]
    ELSE IF country.ret = None
    THEN [ret |-> None, raised |-> FALSE, reqs |-> <<>>,
          shown |-> <<"Country '" \o country_name \o "' not found.">>]
    ELSE LET api_url == FactsUrl(country.ret[1].alpha_3) IN
         IF ~env.ok
         THEN [ret |-> None, raised |-> FALSE, reqs |-> <<api_url>>,
               shown |-> <<"Error fetching data from API">>]
         ELSE LET built == BuildCountryData(env.json) IN
              IF built.raised
              THEN [ret |-> None, raised |-> FALSE, reqs |-> <<api_url>>,
                    shown |-> <<"An unexpected error occurred">>]
              ELSE [ret |-> built.ret, raised |-> FALSE, reqs |-> <<api_url>>,
                    shown |-> <<>>]

----------------------------------------------------------------------------
(* fetch_historical_data and create_historical_chart *)

JNull == <<"null", 0>>

NaN == <<"nan", 0>>

HistoryUrl(country_code, indicator, start_year, end_year) ==
    "http://api.worldbank.org/v2/country/" \o country_code \o "/indicator/"
        \o indicator \o "?date=" \o ToString(start_year) \o ":"
        \o ToString(end_year) \o "&format=json"

\* pd.DataFrame(data): one row per dict; a key a dict lacks, or a null, is NaN.
DataFrame(data) ==
    [k \in 1..Len(data) |->
        [date  |-> data[k].date,
         value |-> IF data[k].value = None \/ data[k].value[1] = JNull
                   THEN NaN ELSE data[k].value[1]]]

\* the frame has a column 'value' iff some dict has the key
HasValueColumn(data) == \E k \in 1..Len(data) : data[k].value # None

RECURSIVE SelectRows(_, _)
\* df[mask]
SelectRows(df, mask) ==
    IF Len(df) = 0 THEN <<>>
    ELSE IF mask[1] THEN <<df[1]>> \o SelectRows(Tail(df), Tail(mask))
         ELSE SelectRows(Tail(df), Tail(mask))

\* line 74 with the mask taken from the truth value of the cell: a 0 is dropped
DropMissingByTruthiness(df) ==
    SelectRows(df, [k \in 1..Len(df) |-> df[k].value # NaN /\ df[k].value # PyInt(0)])

\* line 74: df[df['value'].notna()]
DropMissing(df) == SelectRows(df, [k \in 1..Len(df) |-> df[k].value # NaN])

\* env.json is the parsed body: an array whose elements are None (null) or
\* Some(list of dicts).
fetch_historical_data(country_code, indicator, start_year, end_year, env) ==
    LET api_url == HistoryUrl(country_code, indicator, start_year, end_year) IN
    IF ~env.ok
    THEN [ret |-> None, raised |-> FALSE, reqs |-> <<api_url>>,
          shown |-> <<"Error fetching historical data">>]
    ELSE IF Len(env.json) < 2 \/ env.json[2] = None \/ ~HasValueColumn(env.json[2][1])
    THEN [ret |-> None, raised |-> FALSE, reqs |-> <<api_url>>,
          shown |-> <<"An unexpected error occurred">>]
    ELSE [ret |-> Some(DropMissing(DataFrame(env.json[2][1]))), raised |-> FALSE,
          reqs |-> <<api_url>>, shown |-> <<>>]

\* data is None or Some(frame); the figure is its rows
create_historical_chart(data) ==
    IF data = None \/ Len(data[1]) = 0 THEN None ELSE Some(data[1])

----------------------------------------------------------------------------
(* get_fun_fact *)

\* The file is [state, facts]: "json" with the facts in it, "empty" (zero
\* bytes), or "nodir" when the directory data/ does not exist.
\* open(..., 'w') truncates the file, or raises when it cannot create it;
\* json.load then reads from a handle that is not readable and raises.
get_fun_fact(country_name, f) ==
    IF f.state = "nodir"
    THEN [ret |-> None, raised |-> TRUE, reqs |-> <<>>, shown |-> <<>>, file |-> f,
          exception |-> "FileNotFoundError"]
    ELSE [ret |-> None, raised |-> TRUE, reqs |-> <<>>, shown |-> <<>>,
          file |-> [state |-> "empty", facts |-> <<>>],
          exception |-> "UnsupportedOperation"]

----------------------------------------------------------------------------
(* display_map *)

display_map(data) ==
    LET latitude  == IF "Latitude" \in DOMAIN data THEN Some(data.Latitude) ELSE None
        longitude == IF "Longitude" \in DOMAIN data THEN Some(data.Longitude) ELSE None
    IN
    IF latitude # None /\ longitude # None
    THEN [ret |-> None, raised |-> FALSE, reqs |-> <<>>, shown |-> <<"st.map">>]
    ELSE [ret |-> None, raised |-> FALSE, reqs |-> <<>>,
          shown |-> <<"Could not retrieve map data for this country.">>]

----------------------------------------------------------------------------
(* create_neighbor_population_chart *)

RECURSIVE NeighborLoopStopsAtFailure(_, _)
\* NeighborLoop with the try around the loop instead of inside it
NeighborLoopStopsAtFailure(neighbors, envs) ==
    IF Len(neighbors) = 0 THEN [rows |-> <<>>, reqs |-> <<>>]
    ELSE LET neighbor == countries_get_by_name(neighbors[1]) IN
         IF neighbor.raised THEN [rows |-> <<>>, reqs |-> <<>>]
         ELSE IF neighbor.ret = None
         THEN NeighborLoopStopsAtFailure(Tail(neighbors), Tail(envs))
         ELSE LET api_url == FactsUrl(neighbor.ret[1].alpha_3) IN
              IF ~envs[1].ok \/ Len(envs[1].json) = 0
              THEN [rows |-> <<>>, reqs |-> <<api_url>>]
              ELSE LET rest == NeighborLoopStopsAtFailure(Tail(neighbors), Tail(envs)) IN
                   [rows |-> <<[country    |-> neighbors[1],
                                population |-> Get(envs[1].json[1].population, PyInt(0))]>>
                             \o rest.rows,
                    reqs |-> <<api_url>> \o rest.reqs]

RECURSIVE NeighborLoop(_, _)
\* lines 121-134; envs[k] is what the network does with the request for
\* neighbors[k], if one is made
NeighborLoop(neighbors, envs) ==
    IF Len(neighbors) = 0 THEN [rows |-> <<>>, reqs |-> <<>>]
    ELSE LET rest     == NeighborLoop(Tail(neighbors), Tail(envs))
             neighbor == countries_get_by_name(neighbors[1])
         IN  IF neighbor.raised \/ neighbor.ret = None THEN rest
             ELSE LET api_url == FactsUrl(neighbor.ret[1].alpha_3) IN
                  IF ~envs[1].ok \/ Len(envs[1].json) = 0
                  THEN [rows |-> rest.rows, reqs |-> <<api_url>> \o rest.reqs]
                  ELSE [rows |-> <<[country    |-> neighbors[1],
                                    population |-> Get(envs[1].json[1].population, PyInt(0))]>>
                                 \o rest.rows,
                        reqs |-> <<api_url>> \o rest.reqs]

create_neighbor_population_chart(data, envs) ==
    LET neighbors == data.Neighbors IN
    IF Len(neighbors) = 0
    THEN [ret |-> None, raised |-> FALSE, reqs |-> <<>>, shown |-> <<>>]
    ELSE LET loop == NeighborLoop(neighbors, envs) IN
         IF Len(loop.rows) = 0
         THEN [ret |-> None, raised |-> FALSE, reqs |-> loop.reqs, shown |-> <<>>]
         ELSE [ret |-> Some(loop.rows), raised |-> FALSE, reqs |-> loop.reqs,
               shown |-> <<>>]

----------------------------------------------------------------------------
(* The inputs: what the two web APIs may answer *)

START_YEAR == 2000

END_YEAR == 2020

GDP == "NY.GDP.MKTP.CD"

POPULATION == "SP.POP.TOTL"

\* a RequestException: no connection, a timeout, a 4xx/5xx status
RequestFails == [ok |-> FALSE, json |-> <<>>]

Answer(json) == [ok |-> TRUE, json |-> json]

BorderCodes == {"DEU", "FRA", "XXX", NonStr}

\* objects of the facts API, every field present or not
FactsObjects ==
    [capital    : {None, Some(<<>>), Some(<<"Paris">>)},
     population : {None, Some(PyInt(67))},
     area       : {None, Some(PyInt(551))},
     currencies : {None, Some(<<>>), Some(<< <<"EUR", "Euro">>, <<"XPF", "CFP franc">> >>)},
     languages  : {None, Some(<< <<"fra", "French">>, <<"deu", "German">> >>)},
     timezones  : {None, Some(<<"UTC+01:00">>)},
     borders    : {None} \cup {Some(b) : b \in SeqsUpTo(BorderCodes, MaxBorders)},
     flags      : {None, Some([png |-> None]), Some([png |-> Some("https://flagcdn.com/w320/fr.png")])},
     latlng     : {None, Some(<<46>>), Some(<<46, 2>>)}]

\* a complete object, but for the three fields given
FactsObject(population, borders, latlng) ==
    [capital    |-> Some(<<"Paris">>),
     population |-> population,
     area       |-> Some(PyInt(551)),
     currencies |-> Some(<< <<"EUR", "Euro">> >>),
     languages  |-> Some(<< <<"fra", "French">> >>),
     timezones  |-> Some(<<"UTC+01:00">>),
     borders    |-> borders,
     flags      |-> Some([png |-> Some("https://flagcdn.com/w320/fr.png")]),
     latlng     |-> latlng]

FactsAnswers == {RequestFails, Answer(<<>>)} \cup {Answer(<<o>>) : o \in FactsObjects}

\* the 'value' of one record of the indicators API: no key, null, or a number
ValueFields == {None, Some(JNull), Some(PyInt(0)), Some(PyInt(7))}

\* the records of the years START_YEAR, START_YEAR + 1, ... with these values
YearRecords(values) ==
    [k \in 1..Len(values) |->
        [date |-> ToString(START_YEAR + k - 1), value |-> values[k]]]

Pagination == Some(<<>>)

HistoryAnswers ==
    {RequestFails, Answer(<<>>), Answer(<<Pagination>>), Answer(<<Pagination, None>>)}
    \cup {Answer(<<Pagination, Some(YearRecords(v))>>) : v \in SeqsUpTo(ValueFields, MaxSeries)}

NeighborAnswers ==
    {RequestFails, Answer(<<>>),
     Answer(<<FactsObject(None, None, Some(<<51, 9>>))>>),
     Answer(<<FactsObject(Some(PyInt(83)), None, Some(<<51, 9>>))>>)}

NeighborNames == {"Germany", "France", "Atlantis", NonStr}

FunFactFiles ==
    {[state |-> "nodir", facts |-> <<>>], [state |-> "empty", facts |-> <<>>],
     [state |-> "json", facts |-> <<>>],
     [state |-> "json", facts |-> << <<"France", "France has 12 time zones.">> >>]}

NoResult == [ret |-> None, raised |-> FALSE, reqs |-> <<>>, shown |-> <<>>]

NoCall == [fn |-> "", args |-> <<>>, env |-> <<>>]

EmptyCache ==
    [fetch_country_data               |-> [x \in {} |-> NoResult],
     fetch_historical_data            |-> [x \in {} |-> NoResult],
     get_fun_fact                     |-> [x \in {} |-> NoResult],
     display_map                      |-> [x \in {} |-> NoResult],
     create_neighbor_population_chart |-> [x \in {} |-> NoResult]]

NothingCompleted ==
    [fetch_country_data               |-> {},
     fetch_historical_data            |-> {},
     get_fun_fact                     |-> {},
     display_map                      |-> {},
     create_neighbor_population_chart |-> {}]

----------------------------------------------------------------------------
(* Specification Calls: each function applied once to an input of its domain *)

ScriptIdle ==
    /\ selected = <<>>
    /\ idx = 0
    /\ pc = "call"
    /\ uncaught = ""
    /\ country_data = None
    /\ cache = EmptyCache
    /\ completed = NothingCompleted
    /\ urls = {}
    /\ earlier = {}
    /\ reissued = FALSE
    /\ urlAgain = FALSE
    /\ hit = FALSE
    /\ screen = <<>>
    /\ runs = 0
    /\ result = NoResult

InitCalls ==
    /\ ScriptIdle
    /\ \/ /\ file = [state |-> "json", facts |-> <<>>]
          /\ \/ \E a \in FactsAnswers :
                  call = [fn |-> "fetch_country_data", args |-> "France", env |-> a]
             \/ \E n \in {"Atlantis", NonStr} :
                  call = [fn |-> "fetch_country_data", args |-> n, env |-> RequestFails]
             \/ \E i \in {GDP, POPULATION}, a \in HistoryAnswers :
                  call = [fn |-> "fetch_historical_data",
                          args |-> [country_code |-> "FRA", indicator |-> i,
                                    start_year |-> START_YEAR,
                                    end_year |-> START_YEAR + MaxSeries - 1],
                          env |-> a]
             \/ \E ns \in SeqsUpTo(NeighborNames, MaxNeighbors) :
                  \E es \in [1..Len(ns) -> NeighborAnswers] :
                     call = [fn |-> "create_neighbor_population_chart",
                             args |-> [Neighbors |-> ns], env |-> es]
             \/ \E d \in {[Latitude |-> 46, Longitude |-> 2], [Latitude |-> 46],
                          [Neighbors |-> <<>>]} :
                  call = [fn |-> "display_map", args |-> d, env |-> <<>>]
       \/ /\ file \in FunFactFiles
          /\ \E n \in {"France", "Atlantis"} :
               call = [fn |-> "get_fun_fact", args |-> n, env |-> file]

Return(r) ==
    /\ pc = "call"
    /\ pc' = "returned"
    /\ result' = r
    /\ UNCHANGED <<selected, idx, uncaught, country_data, cache, completed, urls,
                   earlier, reissued, urlAgain, hit, screen, runs, call>>

CallFetchCountryData ==
    /\ call.fn = "fetch_country_data"
    /\ Return(fetch_country_data(call.args, call.env))
    /\ UNCHANGED file

CallFetchHistoricalData ==
    /\ call.fn = "fetch_historical_data"
    /\ Return(fetch_historical_data(call.args.country_code, call.args.indicator,
                                    call.args.start_year, call.args.end_year, call.env))
    /\ UNCHANGED file

CallCreateNeighborPopulationChart ==
    /\ call.fn = "create_neighbor_population_chart"
    /\ Return(create_neighbor_population_chart(call.args, call.env))
    /\ UNCHANGED file

CallDisplayMap ==
    /\ call.fn = "display_map"
    /\ Return(display_map(call.args))
    /\ UNCHANGED file

CallGetFunFact ==
    /\ call.fn = "get_fun_fact"
    /\ LET r == get_fun_fact(call.args, file)
       IN  /\ Return([ret |-> r.ret, raised |-> r.raised, reqs |-> r.reqs,
                      shown |-> r.shown])
           /\ file' = r.file

NextCalls ==
    \/ CallFetchCountryData
    \/ CallFetchHistoricalData
    \/ CallCreateNeighborPopulationChart
    \/ CallDisplayMap
    \/ CallGetFunFact

Calls == InitCalls /\ [][NextCalls]_vars

----------------------------------------------------------------------------
(* st.cache_data *)

Range(s) == {s[k] : k \in 1..Len(s)}

Cached(fn, args) == args \in DOMAIN cache[fn]

\* The outcome of fn(args): the cached one on a hit (its page elements are
\* replayed, the body does not run), else that of the body.
Outcome(fn, args, body) == IF Cached(fn, args) THEN cache[fn][args] ELSE body

\* a cache that keeps only results that are not None
CacheStoreUnlessNone(c, fn, args, out) ==
    IF out.raised \/ out.ret = None THEN c
    ELSE [c EXCEPT ![fn] = (args :> [out EXCEPT !.reqs = <<>>]) @@ @]

\* A call that returns is stored, whatever it returns; one that raises is not.
CacheStore(c, fn, args, out) ==
    IF out.raised THEN c
    ELSE [c EXCEPT ![fn] = (args :> [out EXCEPT !.reqs = <<>>]) @@ @]

\* the effect of one call of a decorated function on the cache and the network
Invoke(fn, args, out) ==
    /\ hit' = Cached(fn, args)
    /\ cache' = IF Cached(fn, args) THEN cache ELSE CacheStore(cache, fn, args, out)
    /\ completed' = IF out.raised THEN completed
                    ELSE [completed EXCEPT ![fn] = @ \cup {args}]
    /\ urls' = urls \cup Range(out.reqs)
    /\ reissued' = (reissued \/ (args \in completed[fn] /\ Len(out.reqs) > 0))
    /\ urlAgain' = (urlAgain \/ \E k \in 1..Len(out.reqs) : out.reqs[k] \in earlier)

----------------------------------------------------------------------------
(* The script, lines 144-208: one run per user interaction *)

MaxSelected == 2

Selections ==
    {s \in SeqsUpTo(country_list, MaxSelected) : Cardinality(Range(s)) = Len(s)}

\* What the facts API answers during a run to the request for a country: no
\* answer, an object without latlng, one without population, a complete one
\* without borders, and complete ones bordering another country and a code
\* that pycountry does not know.
RenderFactsAnswers(country_name) ==
    {RequestFails,
     Answer(<<FactsObject(Some(PyInt(67)), None, None)>>),
     Answer(<<FactsObject(None, None, Some(<<46, 2>>))>>),
     Answer(<<FactsObject(Some(PyInt(67)), None, Some(<<46, 2>>))>>)}
    \cup {Answer(<<FactsObject(Some(PyInt(67)), Some(<<c.alpha_3, "XXX">>),
                               Some(<<46, 2>>))>>) :
             c \in {d \in pycountry_countries : d.name # country_name}}

RenderHistoryAnswers ==
    {RequestFails,
     Answer(<<Pagination, Some(YearRecords(<<Some(JNull)>>))>>),
     Answer(<<Pagination, Some(YearRecords(<<Some(PyInt(7)), Some(JNull)>>))>>)}

Init ==
    /\ selected = <<>>
    /\ idx = 0
    /\ pc = "idle"
    /\ uncaught = ""
    /\ country_data = None
    /\ cache = EmptyCache
    /\ completed = NothingCompleted
    /\ urls = {}
    /\ earlier = {}
    /\ reissued = FALSE
    /\ urlAgain = FALSE
    /\ hit = FALSE
    /\ screen = <<>>
    /\ file = [state |-> "json", facts |-> << <<"France", "France has 12 time zones.">> >>]
    /\ runs = 0
    /\ call = NoCall
    /\ result = NoResult

\* st.write and friends append to the column of the country being rendered
Show(elements) == screen' = [screen EXCEPT ![idx] = @ \o elements]

\* the end of one iteration of the loop of line 157
NextCountry ==
    IF idx < Len(selected)
    THEN idx' = idx + 1 /\ pc' = "fetch"
    ELSE idx' = idx /\ pc' = "done"

\* The user changes the selection, or touches any widget: the script runs
\* again from the top (lines 144-155).
Rerun ==
    /\ pc \in {"idle", "done", "crashed"}
    /\ runs < MaxRuns
    /\ \E s \in Selections :
         /\ selected' = s
         /\ screen' = [k \in 1..Len(s) |-> <<>>]
         /\ IF Len(s) > 0 THEN idx' = 1 /\ pc' = "fetch" ELSE idx' = 0 /\ pc' = "done"
    /\ runs' = runs + 1
    /\ uncaught' = ""
    /\ country_data' = None
    /\ hit' = FALSE
    /\ earlier' = urls
    /\ UNCHANGED <<cache, completed, urls, reissued, urlAgain, file, call, result>>

\* lines 159-161
FetchCountry ==
    /\ pc = "fetch"
    /\ \E env \in RenderFactsAnswers(selected[idx]) :
         LET country_name == selected[idx]
             out == Outcome("fetch_country_data", country_name,
                            fetch_country_data(country_name, env))
         IN  /\ Invoke("fetch_country_data", country_name, out)
             /\ country_data' = out.ret
             /\ Show(out.shown)
             /\ IF out.ret # None THEN idx' = idx /\ pc' = "basic" ELSE NextCountry
    /\ UNCHANGED <<selected, uncaught, earlier, file, runs, call, result>>

\* f"{value:,}" raises ValueError for a str
FormatsWithThousands(value) == IsInt(value)

\* lines 162-172
BasicInformation ==
    /\ pc = "basic"
    /\ LET data == country_data[1] IN
       IF FormatsWithThousands(data.Population) /\ FormatsWithThousands(data.Area)
       THEN Show(<<"Basic Information">>) /\ pc' = "map" /\ uncaught' = ""
       ELSE Show(<<>>) /\ pc' = "crashed" /\ uncaught' = "ValueError"
    /\ hit' = FALSE
    /\ UNCHANGED <<selected, idx, country_data, cache, completed, urls, earlier,
                   reissued, urlAgain, file, runs, call, result>>

\* lines 174-176
CountryLocation ==
    /\ pc = "map"
    /\ LET out == Outcome("display_map", country_data[1], display_map(country_data[1]))
       IN  /\ Invoke("display_map", country_data[1], out)
           /\ Show(out.shown)
    /\ pc' = "neighbors"
    /\ UNCHANGED <<selected, idx, uncaught, country_data, earlier, file, runs, call,
                   result>>

\* lines 178-184
NeighborsPopulation ==
    /\ pc = "neighbors"
    /\ \E envs \in [1..Len(country_data[1].Neighbors) -> NeighborAnswers] :
         LET out == Outcome("create_neighbor_population_chart", country_data[1],
                            create_neighbor_population_chart(country_data[1], envs))
         IN  /\ Invoke("create_neighbor_population_chart", country_data[1], out)
             /\ IF out.ret # None
                THEN Show(<<"Population of Neighboring Countries">>)
                ELSE Show(<<"No data available for neighboring countries' population.">>)
    /\ pc' = "gdp"
    /\ UNCHANGED <<selected, idx, uncaught, country_data, earlier, file, runs, call,
                   result>>

\* lines 190-195 and 198-203: one historical section
HistoricalSection(indicator, title, next) ==
    LET country == countries_get_by_name(selected[idx]).ret IN
    IF country = None
    THEN /\ pc' = "fun_fact"
         /\ UNCHANGED <<cache, completed, urls, reissued, urlAgain, hit, screen>>
    ELSE \E env \in RenderHistoryAnswers :
         LET args == [country_code |-> country[1].alpha_3, indicator |-> indicator,
                      start_year |-> START_YEAR, end_year |-> END_YEAR]
             out  == Outcome("fetch_historical_data", args,
                             fetch_historical_data(args.country_code, args.indicator,
                                                   args.start_year, args.end_year, env))
         IN  /\ Invoke("fetch_historical_data", args, out)
             /\ IF create_historical_chart(out.ret) # None
                THEN Show(out.shown \o <<"Historical " \o title>>)
                ELSE Show(out.shown \o <<"No historical " \o title \o " data available">>)
             /\ pc' = next

\* lines 186-195
HistoricalGDP ==
    /\ pc = "gdp"
    /\ HistoricalSection(GDP, "GDP", "population")
    /\ UNCHANGED <<selected, idx, uncaught, country_data, earlier, file, runs, call,
                   result>>

\* lines 197-203
HistoricalPopulation ==
    /\ pc = "population"
    /\ HistoricalSection(POPULATION, "Population", "fun_fact")
    /\ UNCHANGED <<selected, idx, uncaught, country_data, earlier, file, runs, call,
                   result>>

\* lines 205-208
FunFact ==
    /\ pc = "fun_fact"
    /\ LET country_name == selected[idx]
           body == get_fun_fact(country_name, file)
           out  == Outcome("get_fun_fact", country_name,
                           [ret |-> body.ret, raised |-> body.raised,
                            reqs |-> body.reqs, shown |-> body.shown])
       IN  /\ Invoke("get_fun_fact", country_name, out)
           /\ file' = IF Cached("get_fun_fact", country_name) THEN file ELSE body.file
           /\ IF out.raised
              THEN Show(<<>>) /\ idx' = idx /\ pc' = "crashed"
                   /\ uncaught' = body.exception
              ELSE Show(<<"Fun Fact">> \o out.ret) /\ NextCountry /\ uncaught' = ""
    /\ UNCHANGED <<selected, country_data, earlier, runs, call, result>>

Next ==
    \/ Rerun
    \/ FetchCountry
    \/ BasicInformation
    \/ CountryLocation
    \/ NeighborsPopulation
    \/ HistoricalGDP
    \/ HistoricalPopulation
    \/ FunFact

Spec == Init /\ [][Next]_vars

----------------------------------------------------------------------------
(* Properties of the script run (specification Spec) *)

\* the render of column k is over in the current run
RenderEnded(k) == k < idx \/ (k = idx /\ pc \in {"done", "crashed"})

Shown(k, element) == \E j \in 1..Len(screen[k]) : screen[k][j] = element

SectionsOf(k) ==
    /\ Shown(k, "st.map") \/ Shown(k, "Could not retrieve map data for this country.")
    /\ \/ Shown(k, "Population of Neighboring Countries")
       \/ Shown(k, "No data available for neighboring countries' population.")
    /\ Shown(k, "Historical GDP") \/ Shown(k, "No historical GDP data available")
    /\ \/ Shown(k, "Historical Population")
       \/ Shown(k, "No historical Population data available")
    /\ Shown(k, "Fun Fact")

ApiFailureShown(k) ==
    \/ Shown(k, "Error fetching data from API")
    \/ Shown(k, "Error fetching historical data")

\* C1: no script run is ended by an uncaught exception that a failure of the
\* data (a field missing from a response), of the network or of name
\* resolution raised: every such failure is turned into a message where it
\* occurs.
C1_FailuresAreCaught == ~(pc = "crashed" /\ uncaught = "ValueError")

\* C2: once the render of a country whose record was obtained and whose basic
\* information was written is over, its column holds, for each of the sections
\* map, neighbor chart, historical GDP, historical population and fun fact,
\* either the section or the message that replaces it: the render reached the
\* fun fact whichever sections failed.
C2_SectionsFailIndependently ==
    \A k \in 1..Len(selected) :
        (RenderEnded(k) /\ Shown(k, "Basic Information")) => SectionsOf(k)

\* C3: when a script run is over and an API failure was reported in the column
\* of an earlier selected country, every later selected country was reached by
\* the loop, so its facts retrieval was attempted.
C3_LaterCountriesAttempted ==
    (pc \in {"done", "crashed"}) =>
        \A j \in 1..Len(selected) :
            ApiFailureShown(j) => \A k \in (j + 1)..Len(selected) : k <= idx

\* C9 (as amended): a decorated function never requests the network for
\* arguments it has already returned for, in this run or an earlier one.
C9_NoRequestForCompletedCall == ~reissued

\* C9, witness: a later run got the record of a selected country from the
\* cache, without any request.
C9_Witness == runs >= 2 /\ pc = "basic" /\ hit /\ ~reissued

\* C9 (as claimed): a script run never requests a URL that an earlier run has
\* requested: re-rendering re-issues no network call already made.
C9_NoUrlRequestedTwice == ~urlAgain

----------------------------------------------------------------------------
(* Properties of the functions (specification Calls) *)

Returned(fn) == pc = "returned" /\ call.fn = fn

Resolves(name) ==
    LET country == countries_get_by_name(name) IN ~country.raised /\ country.ret # None

CodeResolves(code) ==
    LET country == countries_get_by_alpha_3(code) IN ~country.raised /\ country.ret # None

\* the j-th smallest element of a set of indices
Nth(S, j) == CHOOSE k \in S : Cardinality({m \in S : m <= k}) = j

NoDuplicates(s) == Cardinality({s[k] : k \in 1..Len(s)}) = Len(s)

\* C4: fetch_country_data for a name the resolver does not know reports
\* 'country not found', returns None and requests nothing; for a name that
\* resolves it makes exactly one request, to the facts URL of the alpha-3 code.
C4_NotFoundOrOneRequest ==
    Returned("fetch_country_data") =>
        LET country == countries_get_by_name(call.args) IN
        /\ (~country.raised /\ country.ret = None) =>
              /\ result.ret = None
              /\ result.reqs = <<>>
              /\ result.shown = <<"Country '" \o call.args \o "' not found.">>
        /\ (~country.raised /\ country.ret # None) =>
              result.reqs =
                  <<"https://restcountries.com/v3.1/alpha/" \o country.ret[1].alpha_3>>

\* C4, witness: the unknown name was reported and nothing was requested.
C4_Witness ==
    /\ Returned("fetch_country_data")
    /\ call.args = "Atlantis"
    /\ result.shown = <<"Country 'Atlantis' not found.">>
    /\ result.reqs = <<>>

\* C5: a record returned by fetch_country_data has latitude and longitude,
\* carries the capital, population, area, currencies and languages of the
\* response, and can be rendered by the caller (its population and area
\* format with thousands separators).
C5_ReturnedRecordIsRenderable ==
    (Returned("fetch_country_data") /\ result.ret # None) =>
        LET record == result.ret[1]
            data   == call.env.json[1]
        IN  /\ data.latlng # None
            /\ record.Latitude = data.latlng[1][1]
            /\ record.Longitude = data.latlng[1][2]
            /\ data.capital # None => record.Capital = data.capital[1][1]
            /\ data.population # None => record.Population = data.population[1]
            /\ data.area # None => record.Area = data.area[1]
            /\ (data.currencies # None /\ data.currencies # Some(<<>>)) =>
                   record.Currency = Join(Keys(data.currencies[1]), ", ")
            /\ data.languages # None =>
                   record.Languages = Join(Values(data.languages[1]), ", ")
            /\ FormatsWithThousands(record.Population)
            /\ FormatsWithThousands(record.Area)

\* the indices of the source records whose value is present
PresentValues(source) ==
    {k \in 1..Len(source) : source[k].value # None /\ source[k].value # Some(JNull)}

\* C6: the series of a successful indicators response has no entry with a
\* missing value and holds every source entry whose value is present, in
\* source order; six years of which exactly one is null give five entries
\* without that year.
C6_SeriesIsThePresentValues ==
    (Returned("fetch_historical_data") /\ result.ret # None) =>
        LET source  == call.env.json[2][1]
            series  == result.ret[1]
            present == PresentValues(source)
        IN  /\ \A j \in 1..Len(series) : series[j].value # NaN
            /\ Len(series) = Cardinality(present)
            /\ \A j \in 1..Len(series) :
                   /\ series[j].date = source[Nth(present, j)].date
                   /\ series[j].value = source[Nth(present, j)].value[1]

\* C6, witness: 2000-2005 with 2003 null gives the five other years.
C6_Witness ==
    /\ Returned("fetch_historical_data")
    /\ result.ret # None
    /\ Len(call.env.json[2][1]) = 6
    /\ PresentValues(call.env.json[2][1]) = {1, 2, 3, 5, 6}
    /\ call.env.json[2][1][4].value = Some(JNull)
    /\ Len(result.ret[1]) = 5
    /\ \A j \in 1..5 : result.ret[1][j].date # "2003"

\* the names the border codes of the response resolve to, in border order
NeighborsAreTheResolvingCodes(neighbors, borders) ==
    LET resolving == {k \in 1..Len(borders) : CodeResolves(borders[k])} IN
    /\ Len(neighbors) = Cardinality(resolving)
    /\ \A j \in 1..Len(neighbors) :
          /\ neighbors[j] # ""
          /\ neighbors[j] =
                countries_get_by_alpha_3(borders[Nth(resolving, j)]).ret[1].name

\* C7 (as amended): the neighbor names of a returned record are, in border
\* order, the names of the border codes that resolve, one per occurrence of
\* the code; a code that does not resolve leaves no entry and no report; the
\* list has no duplicates when the border list has none.
C7_NeighborsAreResolvedBorders ==
    (Returned("fetch_country_data") /\ result.ret # None) =>
        LET borders   == Get(call.env.json[1].borders, <<>>)
            neighbors == result.ret[1].Neighbors
        IN  /\ NeighborsAreTheResolvingCodes(neighbors, borders)
            /\ result.shown = <<>>
            /\ NoDuplicates(borders) => NoDuplicates(neighbors)

\* C7, witness: a border list with a code that resolves and two that do not.
C7_Witness ==
    /\ Returned("fetch_country_data")
    /\ result.ret # None
    /\ call.env.json[1].borders = Some(<<"XXX", "DEU">>)
    /\ result.ret[1].Neighbors = <<"Germany">>

\* C7 (as claimed): the same, and the list never has duplicates.
C7_NeighborsWithoutDuplicates ==
    (Returned("fetch_country_data") /\ result.ret # None) =>
        LET borders   == Get(call.env.json[1].borders, <<>>)
            neighbors == result.ret[1].Neighbors
        IN  /\ NeighborsAreTheResolvingCodes(neighbors, borders)
            /\ result.shown = <<>>
            /\ NoDuplicates(neighbors)

\* the neighbors whose name resolved and whose request returned a facts object
Fetched(neighbors, envs) ==
    {k \in 1..Len(neighbors) :
        Resolves(neighbors[k]) /\ envs[k].ok /\ Len(envs[k].json) > 0}

\* C8: the table of create_neighbor_population_chart has one row, in input
\* order, for each neighbor that resolved and whose facts were fetched, with
\* population 0 when the response has none; the others are dropped without a
\* report; with no such neighbor the result is None.
C8_OneRowPerFetchedNeighbor ==
    Returned("create_neighbor_population_chart") =>
        LET neighbors == call.args.Neighbors
            fetched   == Fetched(neighbors, call.env)
        IN  /\ ~result.raised
            /\ result.shown = <<>>
            /\ (fetched = {}) <=> (result.ret = None)
            /\ fetched # {} =>
                 LET rows == result.ret[1] IN
                 /\ Len(rows) = Cardinality(fetched)
                 /\ \A j \in 1..Len(rows) :
                       LET k == Nth(fetched, j) IN
                       /\ rows[j].country = neighbors[k]
                       /\ rows[j].population =
                             IF call.env[k].json[1].population = None
                             THEN PyInt(0)
                             ELSE call.env[k].json[1].population[1]

\* C8, witness: the first neighbor's request failed, the second neighbor has
\* no population in its response and is the only row.
C8_Witness ==
    /\ Returned("create_neighbor_population_chart")
    /\ call.args.Neighbors = <<"France", "Germany">>
    /\ ~call.env[1].ok
    /\ result.ret = Some(<<[country |-> "Germany", population |-> PyInt(0)]>>)

\* the fact the file holds for the name, or the fallback
FactFor(facts, country_name) ==
    IF \E k \in 1..Len(facts) : facts[k][1] = country_name
    THEN facts[CHOOSE k \in 1..Len(facts) : facts[k][1] = country_name][2]
    ELSE "No fun fact available for this country."

\* C10: get_fun_fact returns the fact the file holds for the name, or the
\* fallback string, and leaves the file as it was.
C10_FunFactReadOnly ==
    (Returned("get_fun_fact") /\ call.env.state = "json") =>
        /\ ~result.raised
        /\ result.ret = Some(FactFor(call.env.facts, call.args))
        /\ file = call.env

====
